---- MODULE Spec2Model ----
(***************************************************************************)
(* Model of the probe / fetch core of the bookmark analyser:               *)
(*   url-checker.py         check_url, check_urls_async, check_urls        *)
(*   content-downloader.py  download_page_content, download_content_async, *)
(*                          download_content                               *)
(*   bookmark-analyzer.py   main (stages 1 to 3)                           *)
(*   bookmark-extractor.py  the record as extraction creates it            *)
(* Each coroutine is cut at its awaits: one action per block of code that  *)
(* the event loop runs without yielding.                                   *)
(***************************************************************************)
EXTENDS Integers, Sequences, FiniteSets, TLC

VARIABLES
    skip_to,      \* args.skip_to
    no_download,  \* args.no_download
    main_pc,      \* position of main()
    bookmarks,    \* main's variable `bookmarks`: None or a list of references
    bm,           \* the bookmark dicts, by reference
    probe,        \* the tasks of check_urls_async, by reference of their bookmark
    fetch,        \* the tasks of download_content_async
    updated,      \* updated_bookmarks of the running phase (completion order)
    files,        \* the paths of the files written under output_dir
    errors,       \* the phases in which an error of the batch as a whole was raised
    calc,         \* a function of the program applied to drawn arguments
    ran,          \* the stages main has entered, in order
    clock         \* ms since the tasks of the phase were created; None in the
                  \* runs in which time is not followed

vars == <<skip_to, no_download, main_pc, bookmarks, bm, probe, fetch, updated, files,
          errors, calc, ran, clock>>

----------------------------------------------------------------------------
(* Bounds *)

NumBookmarks == 2

Refs == 1..NumBookmarks

----------------------------------------------------------------------------
(* Python values *)

\* None is the empty tuple, any other value v is <<v>>
None == <<>>

Some(v) == <<v>>

\* `x or 0` for an int-or-None
OrZero(x) == IF x = None THEN 0 ELSE x[1]

\* truth value of dict.get(key, False) for a bool-or-None field
Truthy(x) == x = Some(TRUE)

----------------------------------------------------------------------------
(* URLs and the batch *)

\* s.startswith(p)
StartsWith(s, p) == Len(s) >= Len(p) /\ SubSeq(s, 1, Len(p)) = p

\* the positions of s at which sub occurs
Occurrences(s, sub) ==
    { k \in 1..(Len(s) - Len(sub) + 1) : SubSeq(s, k, k + Len(sub) - 1) = sub }

\* sub in s
Contains(s, sub) == Occurrences(s, sub) # {}

\* the least element of a non-empty set of numbers
Least(S) == CHOOSE k \in S : \A j \in S : k <= j

\* urlparse(url), for a URL of the form scheme://netloc[/path][?query][#fragment]
UrlParse(url) ==
    LET sep == Least(Occurrences(url, "://"))
        rest == SubSeq(url, sep + 3, Len(url))
        ends == { k \in 1..Len(rest) : SubSeq(rest, k, k) \in {"/", "?", "#"} }
        cut == IF ends = {} THEN Len(rest) + 1 ELSE Least(ends)
        tail == SubSeq(rest, cut, Len(rest))
        stops == { k \in 1..Len(tail) : SubSeq(tail, k, k) \in {"?", "#"} }
        stop == IF stops = {} THEN Len(tail) + 1 ELSE Least(stops)
    IN [scheme |-> SubSeq(url, 1, sep - 1),
        netloc |-> SubSeq(rest, 1, cut - 1),
        path |-> SubSeq(tail, 1, stop - 1)]

\* the links of the exported file that the extraction accepts
Urls == { "https://x.com/a/b", "http://x.com/", "https://y.org/c" }

\* an absolute redirect target, as a Location header gives it
RedirectTarget == "https://z.net/r"

\* url.startswith('https://')
StartsWithHttps(url) == StartsWith(url, "https://")

\* status of a record as the extraction creates it
InitialStatus ==
    [code |-> None, accessible |-> None, redirect |-> None,
     redirect_url |-> None, response_time |-> None, ssl_valid |-> None,
     last_checked |-> None]

\* content of a record as the extraction creates it
InitialContent ==
    [downloaded |-> FALSE, path |-> None, size |-> None, mime_type |-> None,
     download_date |-> None]

\* the bookmark dict built for the i-th accepted link
NewBookmark(i, url) ==
    [id |-> i, url |-> url, domain |-> UrlParse(url).netloc,
     status |-> InitialStatus, content |-> InitialContent]

----------------------------------------------------------------------------
(* Outcomes of a network step *)

\* the statuses a ClientResponseError carries
ErrStatuses == {302, 503}

Response(c, loc) == [kind |-> "response", exc |-> "-", code |-> c, location |-> loc]

Raise(e, s) == [kind |-> "raise", exc |-> e, code |-> s, location |-> None]

\* what session.head(url, allow_redirects=False) can do
HeadOutcomes ==
    { Response(200, None), Response(301, Some(RedirectTarget)),
      Response(301, None), Response(404, None) }
    \cup { Raise(e, 0) : e \in {"ClientConnectorError", "ClientError",
                                "TimeoutError", "Exception"} }
    \cup { Raise("ClientResponseError", s) : s \in ErrStatuses }

\* what session.get(url, allow_redirects=True) can do in check_url; its error
\* status differs from the 404 of the HEAD
ConfirmOutcomes ==
    { Response(200, None), Response(300, Some(RedirectTarget)),
      Response(500, None) }
    \cup { Raise(e, 0) : e \in {"TimeoutError", "Exception"} }

\* isinstance(e, aiohttp.ClientError)
IsClientError(o) ==
    o.exc \in {"ClientError", "ClientConnectorError", "ClientResponseError"}

----------------------------------------------------------------------------
(* check_url *)

\* variant: the last clause `except Exception` is missing
ExceptClause_NoCatchAll(o) ==
    IF IsClientError(o) THEN "ClientError"
    ELSE IF o.exc = "TimeoutError" THEN "TimeoutError"
    ELSE "uncaught"

\* the except clause of check_url that takes a raised error
ExceptClause(o) ==
    IF IsClientError(o) THEN "ClientError"
    ELSE IF o.exc = "TimeoutError" THEN "TimeoutError"
    ELSE "Exception"

\* variant: an error that carries a status is treated as a generic one
ExceptCode_ResponseAsGeneric(o) ==
    CASE ExceptClause(o) = "ClientError" ->
            IF o.exc = "ClientConnectorError" THEN 0 ELSE -1
      [] ExceptClause(o) = "TimeoutError" -> 408
      [] OTHER -> -2

\* status_code set by the except clauses
ExceptCode(o) ==
    CASE ExceptClause(o) = "ClientError" ->
            IF o.exc = "ClientConnectorError" THEN 0
            ELSE IF o.exc = "ClientResponseError" THEN o.code
            ELSE -1
      [] ExceptClause(o) = "TimeoutError" -> 408
      [] OTHER -> -2

\* 300 <= status_code < 400 on the HEAD response
HeadIsRedirect(code) == 300 <= code /\ code < 400

\* s.endswith(p)
EndsWith(s, p) == Len(s) >= Len(p) /\ SubSeq(s, Len(s) - Len(p) + 1, Len(s)) = p

RECURSIVE SplitSlash(_)
\* s.split('/')
SplitSlash(s) ==
    IF ~Contains(s, "/") THEN <<s>>
    ELSE LET k == Least(Occurrences(s, "/")) IN
         <<SubSeq(s, 1, k - 1)>> \o SplitSlash(SubSeq(s, k + 1, Len(s)))

RECURSIVE JoinSlash(_)
\* '/'.join(parts)
JoinSlash(parts) ==
    IF Len(parts) = 0 THEN ""
    ELSE IF Len(parts) = 1 THEN parts[1]
    ELSE parts[1] \o "/" \o JoinSlash(Tail(parts))

\* variant: the target is appended to the whole path of the request
ResolveRedirect_KeepSegment(url, location) ==
    IF location = None \/ location[1] = "" THEN location
    ELSE IF StartsWith(location[1], "http://") \/ StartsWith(location[1], "https://")
    THEN location
    ELSE LET parsed_url == UrlParse(url)
             base_url == parsed_url.scheme \o "://" \o parsed_url.netloc
         IN IF StartsWith(location[1], "/") THEN Some(base_url \o location[1])
            ELSE Some(base_url \o parsed_url.path \o "/" \o location[1])

\* the Location header made absolute against the address of the request
ResolveRedirect(url, location) ==
    IF location = None \/ location[1] = "" THEN location
    ELSE IF StartsWith(location[1], "http://") \/ StartsWith(location[1], "https://")
    THEN location
    ELSE LET parsed_url == UrlParse(url)
             base_url == parsed_url.scheme \o "://" \o parsed_url.netloc
             path == parsed_url.path
         IN IF StartsWith(location[1], "/") THEN Some(base_url \o location[1])
            ELSE IF EndsWith(path, "/") THEN Some(base_url \o path \o location[1])
            ELSE LET parts == SplitSlash(path) IN
                 Some(base_url \o JoinSlash(SubSeq(parts, 1, Len(parts) - 1))
                        \o "/" \o location[1])

\* redirect_url read from the HEAD response to the request of url
HeadRedirectUrl(url, o) ==
    IF HeadIsRedirect(o.code) THEN ResolveRedirect(url, o.location) ELSE None

\* variant: the confirming GET is made for redirections too
NeedsConfirmGet_From300(code) == code >= 300

\* status_code >= 400: the confirming GET is made
NeedsConfirmGet(code) == code >= 400

\* variant: the status of the confirming GET is not read
ConfirmResult_KeepHead(t, o) == t

\* the confirming GET returned: its effect on (status_code, redirect_url)
ConfirmResult(t, o) ==
    [t EXCEPT !.status_code = Some(o.code),
              !.redirect_url = IF 300 <= o.code /\ o.code < 400
                               THEN o.location ELSE @]

\* variant: the inner clause takes the errors of the client library only
ConfirmCaught_ClientErrorOnly(o) == IsClientError(o)

\* the inner `except Exception: pass` takes every error of the GET
ConfirmCaught(o) == TRUE

\* variant: only 2xx counts as accessible
MakeStatus_NarrowAccessible(status_code, redirect_url, ssl_valid) ==
    [code |-> status_code,
     accessible |-> Some(200 <= OrZero(status_code) /\ OrZero(status_code) < 300),
     redirect |-> Some(300 <= OrZero(status_code) /\ OrZero(status_code) < 400),
     redirect_url |-> redirect_url,
     response_time |-> Some("elapsed"),
     ssl_valid |-> ssl_valid,
     last_checked |-> Some("now")]

\* variant: redirect says whether a redirect target was read
MakeStatus_RedirectFromUrl(status_code, redirect_url, ssl_valid) ==
    [code |-> status_code,
     accessible |-> Some(200 <= OrZero(status_code) /\ OrZero(status_code) < 400),
     redirect |-> Some(redirect_url # None),
     redirect_url |-> redirect_url,
     response_time |-> Some("elapsed"),
     ssl_valid |-> ssl_valid,
     last_checked |-> Some("now")]

\* the dict assigned to bookmark['status']
MakeStatus(status_code, redirect_url, ssl_valid) ==
    [code |-> status_code,
     accessible |-> Some(200 <= OrZero(status_code) /\ OrZero(status_code) < 400),
     redirect |-> Some(300 <= OrZero(status_code) /\ OrZero(status_code) < 400),
     redirect_url |-> redirect_url,
     response_time |-> Some("elapsed"),
     ssl_valid |-> ssl_valid,
     last_checked |-> Some("now")]

\* variant: a bookmark that was accessible before stays accessible
SetStatus_StickyAccessible(b, st) ==
    [b EXCEPT !.status =
        [st EXCEPT !.accessible = IF b.status.accessible = Some(TRUE)
                                  THEN Some(TRUE) ELSE @]]

\* bookmark['status'] = {...}
SetStatus(b, st) == [b EXCEPT !.status = st]

\* a task that does not exist; head, get and tls keep what the network
\* steps of the task did, nhead and nget count its requests, start is the
\* time of its first request
NoProbe ==
    [pc |-> "none", delay |-> 0, status_code |-> None, redirect_url |-> None,
     ssl_valid |-> None, head |-> None, get |-> None, tls |-> None,
     nhead |-> 0, nget |-> 0, start |-> None]

\* variant: the task does not sleep
SleepOver_NoSleep(additional_delay) == TRUE

\* `if additional_delay > 0: await asyncio.sleep(additional_delay)` has ended
SleepOver(additional_delay) ==
    IF additional_delay > 0 /\ clock # None
    THEN clock[1] >= additional_delay
    ELSE TRUE

----------------------------------------------------------------------------
(* Domain scheduling and the phase driver of check_urls_async *)

\* --delay, in milliseconds (default 1.0 s)
DelayMs == 1000

\* position of x in a list that holds it
IndexOf(list, x) == CHOOSE k \in 1..Len(list) : list[k] = x

\* domains[domain]: the bookmarks of the list with that domain, in list order
DomainBookmarks(list, d) == SelectSeq(list, LAMBDA r : bm[r].domain = d)

\* the index i that enumerate(domain_bookmarks) gives the bookmark
DomainRank(list, r) == IndexOf(DomainBookmarks(list, bm[r].domain), r) - 1

\* variant: the probe waits the full delay per rank
ProbeDelay_Full(list, r) == DomainRank(list, r) * DelayMs

\* domain_delay = i * delay / 2
ProbeDelay(list, r) == (DomainRank(list, r) * DelayMs) \div 2

\* the elements of a list
Elems(list) == { list[k] : k \in 1..Len(list) }

\* sorted list with x put after the last element whose id is not larger
InsertById(sorted, x) ==
    LET keep == { k \in 1..Len(sorted) : bm[sorted[k]].id <= bm[x].id }
        n == Cardinality(keep)
    IN SubSeq(sorted, 1, n) \o <<x>> \o SubSeq(sorted, n + 1, Len(sorted))

\* variant: the list is returned in completion order
SortById_Unsorted(list) == list

RECURSIVE SortById(_)
\* updated_bookmarks.sort(key=lambda b: b['id'])
SortById(list) ==
    IF list = <<>> THEN <<>>
    ELSE InsertById(SortById(SubSeq(list, 1, Len(list) - 1)), list[Len(list)])

\* the blocking TLS handshake of some task holds the event loop
LoopBlocked == \E r \in Refs : probe[r].pc = "ssl"

\* the tasks created by check_urls_async, one per bookmark of the list
ProbeTasks(list) ==
    [r \in Refs |->
        IF r \in Elems(list)
        THEN [NoProbe EXCEPT !.pc = "created", !.delay = ProbeDelay(list, r)]
        ELSE NoProbe]

\* variant: the loop ends with the first task that completes
ProbeAllDone_First == \E r \in Refs : probe[r].pc = "done"

\* as_completed has handed out every task
ProbeAllDone == \A r \in Refs : probe[r].pc \in {"none", "done"}

\* check_url returns: the status is written and the loop collects the bookmark
FinishProbe(r, t) ==
    /\ bm' = [bm EXCEPT ![r] =
                SetStatus(@, MakeStatus(t.status_code, t.redirect_url, t.ssl_valid))]
    /\ probe' = [probe EXCEPT ![r] = [t EXCEPT !.pc = "done"]]
    /\ updated' = Append(updated, r)

\* variant: the status is written before the TLS check as well
AfterHttp_WriteEarly(r, t) ==
    IF StartsWithHttps(bm[r].url)
    THEN /\ probe' = [probe EXCEPT ![r] = [t EXCEPT !.pc = "ssl"]]
         /\ bm' = [bm EXCEPT ![r] =
                     SetStatus(@, MakeStatus(t.status_code, t.redirect_url, None))]
         /\ UNCHANGED updated
    ELSE FinishProbe(r, [t EXCEPT !.ssl_valid = None])

\* the try block is left without an error: TLS check or, for http, the end
AfterHttp(r, t) ==
    IF StartsWithHttps(bm[r].url)
    THEN /\ probe' = [probe EXCEPT ![r] = [t EXCEPT !.pc = "ssl"]]
         /\ UNCHANGED <<bm, updated>>
    ELSE FinishProbe(r, [t EXCEPT !.ssl_valid = None])

\* variant: after an error the task starts over with a new HEAD
AfterRaise_Retry(r, t, o) ==
    /\ probe' = [probe EXCEPT ![r] = [t EXCEPT !.pc = "created"]]
    /\ UNCHANGED <<bm, updated>>

\* an error leaves the try block: the except clauses
AfterRaise(r, t, o) ==
    IF ExceptClause(o) \in {"ClientError", "TimeoutError", "Exception"}
    THEN FinishProbe(r, [t EXCEPT !.status_code = Some(ExceptCode(o))])
    ELSE /\ probe' = [probe EXCEPT ![r] = [t EXCEPT !.pc = "raised"]]
         /\ UNCHANGED <<bm, updated>>

\* check_url_with_delay: the sleep is over and session.head is called
ProbeIssueHead(r) ==
    /\ main_pc = "checking"
    /\ ~LoopBlocked
    /\ probe[r].pc = "created"
    /\ SleepOver(probe[r].delay)
    /\ probe' = [probe EXCEPT ![r].pc = "head", ![r].nhead = @ + 1,
                              ![r].start = clock]
    /\ UNCHANGED <<calc, ran, clock, errors, skip_to, no_download, main_pc, bookmarks, bm, fetch, updated, files>>

\* session.head returns or raises
ProbeHeadReturns(r) ==
    /\ main_pc = "checking"
    /\ ~LoopBlocked
    /\ probe[r].pc = "head"
    /\ \E o \in HeadOutcomes :
         LET t == [probe[r] EXCEPT !.head = Some(o)] IN
         IF o.kind = "response"
         THEN LET t1 == [t EXCEPT !.status_code = Some(o.code),
                                  !.redirect_url = HeadRedirectUrl(bm[r].url, o)] IN
              IF NeedsConfirmGet(o.code)
              THEN /\ probe' = [probe EXCEPT ![r] =
                                  [t1 EXCEPT !.pc = "get", !.nget = @ + 1]]
                   /\ UNCHANGED <<bm, updated>>
              ELSE AfterHttp(r, t1)
         ELSE AfterRaise(r, t, o)
    /\ UNCHANGED <<calc, ran, clock, errors, skip_to, no_download, main_pc, bookmarks, fetch, files>>

\* the confirming session.get returns or raises
ProbeGetReturns(r) ==
    /\ main_pc = "checking"
    /\ ~LoopBlocked
    /\ probe[r].pc = "get"
    /\ \E o \in ConfirmOutcomes :
         LET t == [probe[r] EXCEPT !.get = Some(o)] IN
         IF o.kind = "response" THEN AfterHttp(r, ConfirmResult(t, o))
         ELSE IF ConfirmCaught(o) THEN AfterHttp(r, t)
         ELSE AfterRaise(r, t, o)
    /\ UNCHANGED <<calc, ran, clock, errors, skip_to, no_download, main_pc, bookmarks, fetch, files>>

\* wrap_socket / connect to port 443 ends, with or without an error
ProbeTls(r) ==
    /\ main_pc = "checking"
    /\ probe[r].pc = "ssl"
    /\ \E ok \in BOOLEAN :
         FinishProbe(r, [probe[r] EXCEPT !.ssl_valid = Some(ok), !.tls = Some(ok)])
    /\ UNCHANGED <<calc, ran, clock, errors, skip_to, no_download, main_pc, bookmarks, fetch, files>>

\* check_urls_async returns the sorted list, or check_urls catches what a
\* task raised and returns its argument; main goes on to stage 3
ProbeReturn ==
    /\ main_pc = "checking"
    /\ ~LoopBlocked
    /\ \/ ProbeAllDone
       \/ \E r \in Refs : probe[r].pc = "raised"
    /\ bookmarks' = IF \E r \in Refs : probe[r].pc = "raised"
                    THEN bookmarks
                    ELSE Some(SortById(updated))
    /\ errors' = IF \E r \in Refs : probe[r].pc = "raised"
                 THEN errors \cup {"check"}
                 ELSE errors
    /\ updated' = <<>>
    /\ main_pc' = "stage3"
    /\ UNCHANGED <<calc, ran, clock, skip_to, no_download, bm, probe, fetch, files>>

----------------------------------------------------------------------------
(* download_page_content *)

FetchResponse(c, ct) == [kind |-> "response", exc |-> "-", code |-> c, ctype |-> ct]

FetchRaise(e) == [kind |-> "raise", exc |-> e, code |-> 0, ctype |-> None]

\* what session.get(url) can do in download_page_content
FetchOutcomes ==
    { FetchResponse(200, None),
      FetchResponse(200, Some("application/json; charset=utf-8")),
      FetchResponse(404, None) }
    \cup { FetchRaise(e) : e \in {"ClientConnectorError", "TimeoutError", "Exception"} }

\* what response.read() can do
ReadOutcomes ==
    { [kind |-> "bytes", exc |-> "-", size |-> 12] }
    \cup { [kind |-> "raise", exc |-> e, size |-> 0] :
             e \in {"ClientPayloadError"} }

\* variant: the clause for asyncio.TimeoutError is missing
FetchExceptClause_NoTimeout(o) ==
    IF o.exc \in {"ClientError", "ClientConnectorError", "ClientResponseError",
                  "ClientPayloadError"}
    THEN "ClientError"
    ELSE "Exception"

\* the except clause of download_page_content that takes a raised error
FetchExceptClause(o) ==
    IF o.exc \in {"ClientError", "ClientConnectorError", "ClientResponseError",
                  "ClientPayloadError"}
    THEN "ClientError"
    ELSE IF o.exc = "TimeoutError" THEN "TimeoutError"
    ELSE "Exception"

\* str(e): the text of an error is the name of its class here
ExcStr(o) == o.exc

\* the 'error' string built by the except clauses
FetchErrorText(o) ==
    CASE FetchExceptClause(o) = "ClientError" -> "client_error: " \o ExcStr(o)
      [] FetchExceptClause(o) = "TimeoutError" -> "timeout"
      [] OTHER -> "unexpected_error: " \o ExcStr(o)

\* the 'error' string of a response whose status is not 200
StatusErrorText(code) == "status_code: " \o ToString(code)

\* variant: the address of the bookmark is always requested
FetchTarget_OriginalUrl(b) == b.url

\* the address that is requested: the redirect target if redirect is true and
\* redirect_url is neither None nor the empty string
FetchTarget(b) ==
    IF /\ Truthy(b.status.redirect)
       /\ b.status.redirect_url # None
       /\ b.status.redirect_url[1] # ""
    THEN b.status.redirect_url[1]
    ELSE b.url

\* variant: the accessibility test is missing
NotAccessible_Never(b) == FALSE

\* not bookmark['status'].get('accessible', False)
NotAccessible(b) == ~Truthy(b.status.accessible)

\* the content dict of a failed download
ErrorContent(text, url) ==
    [downloaded |-> FALSE, error |-> text, download_date |-> Some("now"),
     url_used |-> url]

\* the content dict of a bookmark that is not accessible
InaccessibleContent ==
    [downloaded |-> FALSE, error |-> "inaccessible_url", download_date |-> Some("now")]

\* the content dict of a stored page
StoredContent(file_path, size, content_type, url) ==
    [downloaded |-> TRUE, path |-> file_path, size |-> size,
     mime_type |-> content_type, download_date |-> Some("now"), url_used |-> url]

\* variant: writing the content puts the status back to its initial value
SetContent_ResetStatus(b, c) == [b EXCEPT !.content = c, !.status = InitialStatus]

\* bookmark['content'] = {...}
SetContent(b, c) == [b EXCEPT !.content = c]

\* response.headers.get('Content-Type', 'text/html')
ContentType(o) == IF o.ctype = None THEN "text/html" ELSE o.ctype[1]

\* variant: xml is looked for before json
Extension_XmlFirst(content_type) ==
    IF Contains(content_type, "xml") THEN ".xml"
    ELSE IF Contains(content_type, "json") THEN ".json"
    ELSE IF Contains(content_type, "text/plain") THEN ".txt"
    ELSE ".html"

\* the extension chosen from the content type
Extension(content_type) ==
    IF Contains(content_type, "json") THEN ".json"
    ELSE IF Contains(content_type, "xml") THEN ".xml"
    ELSE IF Contains(content_type, "text/plain") THEN ".txt"
    ELSE ".html"

RECURSIVE ReplaceChar(_, _, _)
\* s.replace(a, b) for a character a
ReplaceChar(s, a, b) ==
    IF Len(s) = 0 THEN ""
    ELSE (IF SubSeq(s, 1, 1) = a THEN b ELSE SubSeq(s, 1, 1))
         \o ReplaceChar(SubSeq(s, 2, Len(s)), a, b)

RECURSIVE StripSlashes(_)
\* s.strip('/')
StripSlashes(s) ==
    IF Len(s) > 0 /\ SubSeq(s, 1, 1) = "/" THEN StripSlashes(SubSeq(s, 2, Len(s)))
    ELSE IF Len(s) > 0 /\ SubSeq(s, Len(s), Len(s)) = "/"
    THEN StripSlashes(SubSeq(s, 1, Len(s) - 1))
    ELSE s

\* the name part made from the path of the URL
PathName(url) ==
    LET p == StripSlashes(UrlParse(url).path) IN
    IF Len(p) = 0 THEN "index"
    ELSE LET q == ReplaceChar(p, "/", "_") IN
         IF Len(q) > 100 THEN SubSeq(q, 1, 100) ELSE q

\* hashlib.md5(url.encode()).hexdigest()[:10]: a tag that depends on the URL only
UrlHash(url) ==
    CASE url = "https://x.com/a/b" -> "3f2a9c01d7"
      [] url = "http://x.com/" -> "a81b44e0c2"
      [] url = "https://y.org/c" -> "07cd5512fe"
      [] url = "https://z.net/r" -> "e4906b3a18"
      [] OTHER -> "0000000000"

\* datetime.now().strftime("%Y%m%d")
DateStamp == "20240101"

\* config['output_dir']
OutputDir == "output"

\* os.path.join(config['output_dir'], 'data/content', domain)
ContentDir(url) ==
    OutputDir \o "/data/content/" \o ReplaceChar(UrlParse(url).netloc, ":", "_")

\* os.path.join(content_dir, filename)
FilePath(url, content_type) ==
    ContentDir(url) \o "/" \o PathName(url) \o "_" \o UrlHash(url) \o "_"
        \o DateStamp \o Extension(content_type)

\* a task that does not exist; get and read keep what the network steps of
\* the task did, nget counts its requests, seq is the position at which
\* as_completed hands the task out, start is the time of its request
NoFetch ==
    [pc |-> "none", delay |-> 0, url |-> None, file_path |-> None,
     content_type |-> None, get |-> None, read |-> None, nget |-> 0, seq |-> 0,
     start |-> None]

\* download_page_content returns and the loop collects the bookmark
FinishFetch(r, t, c) ==
    /\ bm' = [bm EXCEPT ![r] = SetContent(@, c)]
    /\ fetch' = [fetch EXCEPT ![r] = [t EXCEPT !.pc = "done",
                                                !.seq = Len(updated) + 1]]
    /\ updated' = Append(updated, r)

\* an error leaves the try block of download_page_content
FetchAfterRaise(r, t, o) ==
    IF FetchExceptClause(o) \in {"ClientError", "TimeoutError", "Exception"}
    THEN FinishFetch(r, t, ErrorContent(FetchErrorText(o), t.url[1]))
    ELSE /\ fetch' = [fetch EXCEPT ![r] = [t EXCEPT !.pc = "raised"]]
         /\ UNCHANGED <<bm, updated>>

----------------------------------------------------------------------------
(* download_content_async and download_content *)

\* variant: every bookmark of the list gets a task
Downloadable_All(list) == list

\* the bookmarks of the list that get a task: the accessible ones, in list order
Downloadable(list) == SelectSeq(list, LAMBDA r : ~NotAccessible(bm[r]))

\* variant: every bookmark of the list gets the inaccessible_url content
NonDownloaded_All(list) == list

\* the bookmarks of the list that get the inaccessible_url content
NonDownloaded(list) == SelectSeq(list, LAMBDA r : NotAccessible(bm[r]))

\* variant: the fetch waits half the delay per rank, as the probe does
FetchDelay_Half(list, r) == (DomainRank(list, r) * DelayMs) \div 2

\* domain_delay = i * delay
FetchDelay(list, r) == DomainRank(list, r) * DelayMs

\* the tasks created by download_content_async
FetchTasks(list) ==
    [r \in Refs |->
        IF r \in Elems(Downloadable(list))
        THEN [NoFetch EXCEPT !.pc = "created",
                             !.delay = FetchDelay(Downloadable(list), r)]
        ELSE NoFetch]

\* as_completed has handed out every task
FetchAllDone == \A r \in Refs : fetch[r].pc \in {"none", "done"}

\* download_content_with_delay: the sleep is over; download_page_content
\* returns at once for a bookmark that is not accessible, else calls session.get
FetchIssueGet(r) ==
    /\ main_pc = "downloading"
    /\ fetch[r].pc = "created"
    /\ SleepOver(fetch[r].delay)
    /\ IF NotAccessible(bm[r])
       THEN /\ fetch' = [fetch EXCEPT ![r].pc = "done",
                                      ![r].seq = Len(updated) + 1]
            /\ updated' = Append(updated, r)
       ELSE /\ fetch' = [fetch EXCEPT ![r].pc = "get",
                                      ![r].url = Some(FetchTarget(bm[r])),
                                      ![r].nget = @ + 1,
                                      ![r].start = clock]
            /\ UNCHANGED updated
    /\ UNCHANGED <<calc, ran, clock, errors, skip_to, no_download, main_pc, bookmarks, bm, probe, files>>

\* session.get returns or raises; os.makedirs of the domain folder
FetchGetReturns(r) ==
    /\ main_pc = "downloading"
    /\ fetch[r].pc = "get"
    /\ \E o \in FetchOutcomes :
         LET t == [fetch[r] EXCEPT !.get = Some(o)] IN
         IF o.kind = "raise" THEN FetchAfterRaise(r, t, o)
         ELSE IF o.code # 200
         THEN FinishFetch(r, t, ErrorContent(StatusErrorText(o.code), t.url[1]))
         ELSE \E made \in BOOLEAN :
                IF made
                THEN /\ fetch' = [fetch EXCEPT ![r] =
                            [t EXCEPT !.pc = "read",
                                      !.content_type = Some(ContentType(o)),
                                      !.file_path =
                                          Some(FilePath(t.url[1], ContentType(o)))]]
                     /\ UNCHANGED <<bm, updated>>
                ELSE FetchAfterRaise(r, t, FetchRaise("OSError"))
    /\ UNCHANGED <<calc, ran, clock, errors, skip_to, no_download, main_pc, bookmarks, probe, files>>

\* response.read() returns or raises; the file is written
FetchReadReturns(r) ==
    /\ main_pc = "downloading"
    /\ fetch[r].pc = "read"
    /\ \E o \in ReadOutcomes :
         LET t == [fetch[r] EXCEPT !.read = Some(o)] IN
         IF o.kind = "raise"
         THEN FetchAfterRaise(r, t, o) /\ UNCHANGED files
         ELSE \E written \in BOOLEAN :
                IF written
                THEN /\ files' = files \cup {t.file_path[1]}
                     /\ FinishFetch(r, t, StoredContent(t.file_path[1], o.size,
                                                        t.content_type[1], t.url[1]))
                ELSE FetchAfterRaise(r, t, FetchRaise("OSError")) /\ UNCHANGED files
    /\ UNCHANGED <<calc, ran, clock, errors, skip_to, no_download, main_pc, bookmarks, probe>>

\* download_content_async gives the other bookmarks their content, sorts and
\* returns, or download_content catches what a task raised and returns its
\* argument; main goes on to stage 4
FetchReturn ==
    /\ main_pc = "downloading"
    /\ \/ FetchAllDone
       \/ \E r \in Refs : fetch[r].pc = "raised"
    /\ IF \E r \in Refs : fetch[r].pc = "raised"
       THEN errors' = errors \cup {"download"} /\ UNCHANGED <<bookmarks, bm>>
       ELSE /\ UNCHANGED errors
            /\ bm' = [r \in DOMAIN bm |->
                        IF r \in Elems(NonDownloaded(bookmarks[1]))
                        THEN SetContent(bm[r], InaccessibleContent)
                        ELSE bm[r]]
            /\ bookmarks' = Some(SortById(updated \o NonDownloaded(bookmarks[1])))
    /\ updated' = <<>>
    /\ main_pc' = "stage4"
    /\ UNCHANGED <<calc, ran, clock, skip_to, no_download, probe, fetch, files>>

----------------------------------------------------------------------------
(* main *)

Alphabet == "abcdefghijklmnopqrstuvwxyz"

\* ord(c) of a lower-case letter, up to a constant
Ord(c) == Least(Occurrences(Alphabet, c))

\* a <= b on Python strings
StrLeq(a, b) ==
    LET n == IF Len(a) < Len(b) THEN Len(a) ELSE Len(b)
        diff == { k \in 1..n : SubSeq(a, k, k) # SubSeq(b, k, k) }
    IN IF diff = {} THEN Len(a) <= Len(b)
       ELSE Ord(SubSeq(a, Least(diff), Least(diff)))
                < Ord(SubSeq(b, Least(diff), Least(diff)))

\* choices of --skip-to
SkipToChoices ==
    {"extract", "check", "download", "analyze", "categorize", "recommend", "report"}

\* the values of --skip-to of the runs that are examined
RunStages == {"extract", "check", "download"}

\* the tasks of a phase are created: time is counted from here
ResetClock == IF clock = None THEN None ELSE Some(0)

\* the list extract_bookmarks_from_html returns
ExtractedList == [k \in Refs |-> k]

\* stage 1: extraction of the bookmarks of the input file
MainExtract ==
    /\ main_pc = "stage1"
    /\ IF StrLeq(skip_to, "extract") /\ bookmarks = None
       THEN /\ \E u \in [Refs -> Urls] :
                 /\ bm' = [r \in Refs |-> NewBookmark(r, u[r])]
                 /\ bookmarks' = Some(ExtractedList)
            /\ ran' = Append(ran, "extract")
       ELSE UNCHANGED <<bm, bookmarks, ran>>
    /\ main_pc' = "stage2"
    /\ UNCHANGED <<calc, clock, errors, skip_to, no_download, probe, fetch, updated, files>>

\* `except Exception` of check_urls takes what its try block raises
CheckCaught == TRUE

\* stage 2: check_urls is called; it gets its event loop and creates its
\* tasks, or asyncio.new_event_loop raises and the except clause returns the
\* argument
MainCheck ==
    /\ main_pc = "stage2"
    /\ IF StrLeq(skip_to, "check")
       THEN IF bookmarks = None
            THEN main_pc' = "crashed" /\ UNCHANGED <<probe, errors>>
            ELSE \E looped \in BOOLEAN :
                   IF looped
                   THEN /\ main_pc' = "checking"
                        /\ probe' = ProbeTasks(bookmarks[1])
                        /\ UNCHANGED errors
                   ELSE /\ main_pc' = IF CheckCaught THEN "stage3" ELSE "crashed"
                        /\ errors' = errors \cup {"check"}
                        /\ UNCHANGED probe
       ELSE main_pc' = "stage3" /\ UNCHANGED <<probe, errors>>
    /\ ran' = IF StrLeq(skip_to, "check") THEN Append(ran, "check") ELSE ran
    /\ clock' = ResetClock
    /\ UNCHANGED <<calc, skip_to, no_download, bookmarks, bm, fetch, updated, files>>

\* `except Exception` of download_content takes what its try block raises
DownloadCaught == TRUE

\* stage 3: download_content is called; os.makedirs of the content folder
\* raises to main, or the folder is there and download_content gets its event
\* loop and creates its tasks, or asyncio.new_event_loop raises and the
\* except clause returns the argument
MainDownload ==
    /\ main_pc = "stage3"
    /\ IF StrLeq(skip_to, "download") /\ ~no_download
       THEN IF bookmarks = None
            THEN main_pc' = "crashed" /\ UNCHANGED <<fetch, errors>>
            ELSE \E made, looped \in BOOLEAN :
                   IF ~made
                   THEN /\ main_pc' = "crashed"
                        /\ errors' = errors \cup {"download"}
                        /\ UNCHANGED fetch
                   ELSE IF looped
                   THEN /\ main_pc' = "downloading"
                        /\ fetch' = FetchTasks(bookmarks[1])
                        /\ UNCHANGED errors
                   ELSE /\ main_pc' = IF DownloadCaught THEN "stage4" ELSE "crashed"
                        /\ errors' = errors \cup {"download"}
                        /\ UNCHANGED fetch
       ELSE main_pc' = "stage4" /\ UNCHANGED <<fetch, errors>>
    /\ ran' = IF StrLeq(skip_to, "download") /\ ~no_download
              THEN Append(ran, "download") ELSE ran
    /\ clock' = ResetClock
    /\ UNCHANGED <<calc, skip_to, no_download, bookmarks, bm, probe, updated, files>>

\* the stages after the download, in the order of main
LaterStages == <<"analyze", "categorize", "recommend">>

\* stages 4 to 6, each under its test on args.skip_to, and the report
MainRest ==
    /\ main_pc = "stage4"
    /\ main_pc' = "exited"
    /\ ran' = ran \o SelectSeq(LaterStages, LAMBDA st : StrLeq(skip_to, st))
    /\ UNCHANGED <<calc, clock, errors, skip_to, no_download, bookmarks, bm, probe, fetch, updated, files>>

----------------------------------------------------------------------------
(* Specification *)

\* no function is applied on its own in a run of main
NoCalc == [fn |-> "none", arg |-> None, out |-> None]

Init ==
    /\ skip_to \in RunStages
    /\ no_download \in BOOLEAN
    /\ main_pc = "stage1"
    /\ bookmarks = None
    /\ bm = <<>>
    /\ probe = [r \in Refs |-> NoProbe]
    /\ fetch = [r \in Refs |-> NoFetch]
    /\ updated = <<>>
    /\ files = {}
    /\ errors = {}
    /\ calc = NoCalc
    /\ ran = <<>>
    /\ clock = None

Next ==
    \/ MainExtract
    \/ MainCheck
    \/ \E r \in Refs : ProbeIssueHead(r)
    \/ \E r \in Refs : ProbeHeadReturns(r)
    \/ \E r \in Refs : ProbeGetReturns(r)
    \/ \E r \in Refs : ProbeTls(r)
    \/ ProbeReturn
    \/ MainDownload
    \/ \E r \in Refs : FetchIssueGet(r)
    \/ \E r \in Refs : FetchGetReturns(r)
    \/ \E r \in Refs : FetchReadReturns(r)
    \/ FetchReturn
    \/ MainRest

Spec == Init /\ [][Next]_vars

\* the runs that stop after the probe phase (--no-download)
InitProbe == Init /\ no_download = TRUE

NextProbe ==
    \/ MainExtract
    \/ MainCheck
    \/ \E r \in Refs : ProbeIssueHead(r)
    \/ \E r \in Refs : ProbeHeadReturns(r)
    \/ \E r \in Refs : ProbeGetReturns(r)
    \/ \E r \in Refs : ProbeTls(r)
    \/ ProbeReturn
    \/ MainDownload
    \/ MainRest

SpecProbe == InitProbe /\ [][NextProbe]_vars

\* what the scheduling gives: main and the event loop go on whenever they
\* can, and session.head and session.get end, at the latest with the
\* TimeoutError of their ClientTimeout. The handshake on the blocking socket
\* has no timeout: nothing makes it end.
FairProbe ==
    /\ WF_vars(MainExtract)
    /\ WF_vars(MainCheck)
    /\ \A r \in Refs : WF_vars(ProbeIssueHead(r))
    /\ \A r \in Refs : WF_vars(ProbeHeadReturns(r))
    /\ \A r \in Refs : WF_vars(ProbeGetReturns(r))
    /\ WF_vars(ProbeReturn)
    /\ WF_vars(MainDownload)
    /\ WF_vars(MainRest)

SpecProbeLive == InitProbe /\ [][NextProbe]_vars /\ FairProbe


----------------------------------------------------------------------------
(* Runs of main on the saved state of an earlier run: --state-file with       *)
(* --skip-to check --no-download                                              *)

\* what the earlier run left in a record: nothing after the extraction, a
\* stored page, or a host that could not be reached
PriorKinds == {"extracted", "stored", "unreachable"}

\* a bookmark dict of the state file
PriorRecord(i, url, kind) ==
    LET b == NewBookmark(i, url) IN
    CASE kind = "stored" ->
            [b EXCEPT !.status = MakeStatus(Some(200), None,
                                            IF StartsWithHttps(url)
                                            THEN Some(TRUE) ELSE None),
                      !.content = StoredContent(FilePath(url, "text/html"), 12,
                                                "text/html", url)]
      [] kind = "unreachable" ->
            [b EXCEPT !.status = MakeStatus(Some(0), None, None),
                      !.content = InaccessibleContent]
      [] OTHER -> b

\* json.load of the state file gave the list; main is before stage 1
InitReprobe ==
    /\ skip_to = "check"
    /\ no_download = TRUE
    /\ main_pc = "stage1"
    /\ bookmarks = Some(ExtractedList)
    /\ \E u \in [Refs -> Urls], k \in [Refs -> PriorKinds] :
          bm = [r \in Refs |-> PriorRecord(r, u[r], k[r])]
    /\ probe = [r \in Refs |-> NoProbe]
    /\ fetch = [r \in Refs |-> NoFetch]
    /\ updated = <<>>
    /\ files = {}
    /\ errors = {}
    /\ calc = NoCalc
    /\ ran = <<>>
    /\ clock = None

SpecReprobe == InitReprobe /\ [][NextProbe]_vars

----------------------------------------------------------------------------
(* Runs in which time is followed: the probe phase of --skip-to check        *)
(* --no-download, and the fetch phase of --skip-to download on the saved      *)
(* state of an earlier run                                                    *)

\* the step of the clock: the shorter of the two stagger intervals
TickMs == DelayMs \div 2

\* the longest sleep of a task of the batch
MaxClock == (NumBookmarks - 1) * DelayMs

\* time passes while the tasks of a phase run
Tick ==
    /\ main_pc \in {"checking", "downloading"}
    /\ clock # None
    /\ clock[1] < MaxClock
    /\ clock' = Some(clock[1] + TickMs)
    /\ UNCHANGED <<skip_to, no_download, main_pc, bookmarks, bm, probe, fetch,
                   updated, files, errors, calc, ran>>

InitTimed ==
    /\ \/ /\ skip_to = "check"
          /\ no_download = TRUE
          /\ bookmarks = None
          /\ bm = <<>>
       \/ /\ skip_to = "download"
          /\ no_download = FALSE
          /\ bookmarks = Some(ExtractedList)
          /\ \E u \in [Refs -> Urls], k \in [Refs -> PriorKinds] :
                bm = [r \in Refs |-> PriorRecord(r, u[r], k[r])]
    /\ main_pc = "stage1"
    /\ probe = [r \in Refs |-> NoProbe]
    /\ fetch = [r \in Refs |-> NoFetch]
    /\ updated = <<>>
    /\ files = {}
    /\ errors = {}
    /\ calc = NoCalc
    /\ ran = <<>>
    /\ clock = Some(0)

NextTimed ==
    \/ Next
    \/ Tick

SpecTimed == InitTimed /\ [][NextTimed]_vars

----------------------------------------------------------------------------
(* The functions of the two phases, applied on their own *)

\* Content-Type headers of a response: none, or type/subtype with or without
\* a parameter
ContentTypeHeaders ==
    {None} \cup
    { Some(a \o b \o c) :
        a \in {"application/", "text/", "image/"},
        b \in {"json", "xml", "plain", "html", "ld+json", "xhtml+xml", "json+xml", "png"},
        c \in {"", "; charset=utf-8"} }

\* addresses of a HEAD request
RequestUrls ==
    { "https://a.b/x/y", "https://a.b/x/", "https://a.b", "http://a.b/y",
      "https://a.b/x/y?k=v/w", "https://a.b:8080/x/y/" }

\* Location headers of a redirection: none, empty, relative or absolute
Locations ==
    { None, Some(""), Some("z"), Some("/q"), Some("z/w"), Some("../u"),
      Some("?p=1"), Some("https://c.d/e"), Some("http://c.d/") }

\* the calls that are examined
CalcInputs ==
    { [fn |-> "extension", arg |-> h, out |-> None] : h \in ContentTypeHeaders }
    \cup { [fn |-> "resolve", arg |-> <<u, l>>, out |-> None] :
              u \in RequestUrls, l \in Locations }

\* content_type is read from the response and the extension is chosen
ApplyExtension ==
    /\ calc.fn = "extension"
    /\ calc.out = None
    /\ calc' = [calc EXCEPT
                  !.out = Some(Extension(ContentType(FetchResponse(200, calc.arg))))]
    /\ UNCHANGED <<skip_to, no_download, main_pc, bookmarks, bm, probe, fetch,
                   updated, files, errors, ran, clock>>

\* the Location header of a 3xx answer to a HEAD is made absolute
ApplyResolveRedirect ==
    /\ calc.fn = "resolve"
    /\ calc.out = None
    /\ calc' = [calc EXCEPT
                  !.out = Some(HeadRedirectUrl(calc.arg[1],
                                               Response(302, calc.arg[2])))]
    /\ UNCHANGED <<skip_to, no_download, main_pc, bookmarks, bm, probe, fetch,
                   updated, files, errors, ran, clock>>

InitCalc ==
    /\ calc \in CalcInputs
    /\ skip_to = "extract"
    /\ no_download = FALSE
    /\ main_pc = "stage1"
    /\ bookmarks = None
    /\ bm = <<>>
    /\ probe = [r \in Refs |-> NoProbe]
    /\ fetch = [r \in Refs |-> NoFetch]
    /\ updated = <<>>
    /\ files = {}
    /\ errors = {}
    /\ ran = <<>>
    /\ clock = None

NextCalc ==
    \/ ApplyExtension
    \/ ApplyResolveRedirect

SpecCalc == InitCalc /\ [][NextCalc]_vars

----------------------------------------------------------------------------
(* Properties *)

\* the references of main's list
BatchRefs == IF bookmarks = None THEN {} ELSE Elems(bookmarks[1])

\* check_urls ran and has returned
ProbePhaseOver ==
    /\ main_pc \in {"stage3", "downloading", "stage4", "exited"}
    /\ \E r \in Refs : probe[r].pc # "none"

\* download_content ran its batch and has returned
FetchPhaseOver ==
    /\ main_pc \in {"stage4", "exited"}
    /\ StrLeq(skip_to, "download")
    /\ ~no_download
    /\ "download" \notin errors

StatusFields ==
    {"code", "accessible", "redirect", "redirect_url", "response_time",
     "ssl_valid", "last_checked"}

InRange(c, lo, hi) == lo <= c /\ c < hi

\* the status of r has its seven fields, written by the probe
StatusWritten(r) ==
    LET st == bm[r].status IN
    /\ DOMAIN st = StatusFields
    /\ st.code # None
    /\ st.accessible \in {Some(TRUE), Some(FALSE)}
    /\ st.redirect \in {Some(TRUE), Some(FALSE)}
    /\ st.response_time # None
    /\ st.last_checked # None

\* C1: a record that is not accessible gets no request in the fetch phase,
\* and after the phase its content is downloaded = false with the error
\* "inaccessible_url".
C1_InaccessibleNotFetched ==
    /\ \A r \in BatchRefs :
         bm[r].status.accessible # Some(TRUE) => fetch[r].nget = 0
    /\ FetchPhaseOver =>
         \A r \in BatchRefs :
            bm[r].status.accessible # Some(TRUE) =>
               /\ bm[r].content.downloaded = FALSE
               /\ "error" \in DOMAIN bm[r].content
               /\ bm[r].content.error = "inaccessible_url"

\* C1: the fetch phase is over with a record that the probe found
\* inaccessible beside a record that was requested
C1_Witness ==
    /\ FetchPhaseOver
    /\ \E r, j \in BatchRefs :
         /\ bm[r].status.accessible = Some(FALSE)
         /\ bm[r].content.error = "inaccessible_url"
         /\ fetch[j].nget = 1

\* C2: after the probe phase every record has the seven status fields, with
\* accessible = (200 <= code < 400) and redirect = (300 <= code < 400).
C2_StatusPopulated ==
    ProbePhaseOver =>
       \A r \in Refs :
          /\ StatusWritten(r)
          /\ bm[r].status.accessible = Some(InRange(bm[r].status.code[1], 200, 400))
          /\ bm[r].status.redirect = Some(InRange(bm[r].status.code[1], 300, 400))

\* C2: the phase is over with a code from a raised error, a code from the
\* follow-up GET and a code from the HEAD response
C2_Witness ==
    /\ ProbePhaseOver
    /\ \E r \in Refs : probe[r].head # None /\ probe[r].head[1].kind = "raise"
    /\ \E r \in Refs :
         \/ probe[r].get # None /\ probe[r].get[1].kind = "response"
         \/ probe[r].head = Some(Response(301, None))

\* C3 as stated: a final code 301 gives redirect = true and accessible = false.
C3_Code301NotAccessible ==
    ProbePhaseOver =>
       \A r \in Refs :
          bm[r].status.code = Some(301) =>
             /\ bm[r].status.redirect = Some(TRUE)
             /\ bm[r].status.accessible = Some(FALSE)

\* C3 amended: a final code 301 gives redirect = true and accessible = true.
C3_Code301Accessible ==
    ProbePhaseOver =>
       \A r \in Refs :
          bm[r].status.code = Some(301) =>
             /\ bm[r].status.redirect = Some(TRUE)
             /\ bm[r].status.accessible = Some(TRUE)

\* C3: the phase is over and some record ended with code 301
C3_Witness ==
    /\ ProbePhaseOver
    /\ \E r \in Refs : bm[r].status.code = Some(301)

\* the list holds every record once, in ascending order of id
SortedBatch(list) ==
    /\ Len(list) = NumBookmarks
    /\ \A k \in 1..Len(list) : bm[list[k]].id = k

\* C4: whatever the completion order, the list each phase returns is sorted
\* ascending by id, so it is the same list for every completion order.
C4_SortedOutput ==
    (ProbePhaseOver \/ FetchPhaseOver) => SortedBatch(bookmarks[1])

\* C4: both phases are over and the second record completed its download
\* before the first
C4_Witness ==
    /\ ProbePhaseOver
    /\ FetchPhaseOver
    /\ \E r, j \in Refs :
         /\ bm[r].id < bm[j].id
         /\ fetch[r].pc = "done" /\ fetch[j].pc = "done"
         /\ fetch[j].seq < fetch[r].seq

\* C5: in a run with both phases no fetch task exists before every probe
\* task has completed and written its status.
C5_Barrier ==
    ((\E r \in Refs : probe[r].pc # "none") /\ (\E r \in Refs : fetch[r].pc # "none"))
       => \A j \in Refs : probe[j].pc = "done" /\ StatusWritten(j)

\* C5: a fetch request is in flight after a probe phase
C5_Witness ==
    /\ \E r \in Refs : probe[r].pc # "none"
    /\ \E r \in Refs : fetch[r].pc = "get" /\ fetch[r].nget = 1

\* some network step of the probe of r failed
ProbeFailed(r) ==
    \/ probe[r].head # None /\ probe[r].head[1].kind = "raise"
    \/ probe[r].get # None /\ probe[r].get[1].kind = "raise"
    \/ probe[r].tls = Some(FALSE)

\* C6: when the probe of a bookmark fails, that bookmark still gets a status
\* and every other bookmark is still probed and returned.
C6_FailureConfined ==
    (ProbePhaseOver /\ \E r \in Refs : ProbeFailed(r)) =>
       /\ \A j \in Refs : probe[j].pc = "done" /\ StatusWritten(j)
       /\ \A j \in Refs :
            Cardinality({ k \in 1..Len(bookmarks[1]) : bookmarks[1][k] = j }) = 1

\* C6: the phase is over, the HEAD of one bookmark raised and the HEAD of
\* another was answered
C6_Witness ==
    /\ ProbePhaseOver
    /\ \E r, j \in Refs :
         /\ probe[r].head # None /\ probe[r].head[1].kind = "raise"
         /\ probe[j].head # None /\ probe[j].head[1].kind = "response"
         /\ bm[j].status.code = Some(200)

\* what the download of r ended with, from what its steps did
FetchCause(r) ==
    LET t == fetch[r] IN
    IF t.get[1].kind = "raise" THEN t.get[1].exc
    ELSE IF t.get[1].code # 200 THEN "status"
    ELSE IF t.read = None THEN "OSError"
    ELSE IF t.read[1].kind = "raise" THEN t.read[1].exc
    ELSE IF bm[r].content.downloaded THEN "stored"
    ELSE "OSError"

\* the buckets an error string falls in
ErrorBuckets(e) ==
    { b \in {"status_code", "client_error", "timeout", "unexpected_error"} :
        IF b = "timeout" THEN e = "timeout" ELSE StartsWith(e, b \o ":") }

\* C7: for an accessible record, downloaded is true only if the GET returned
\* 200 and the bytes were stored; any other outcome gives downloaded = false
\* with an error in exactly one of the buckets status_code, client_error,
\* timeout, unexpected_error, and every task of the batch completes.
C7_FetchOutcome ==
    FetchPhaseOver =>
       \A r \in Refs :
          fetch[r].pc # "none" =>
             /\ fetch[r].pc = "done"
             /\ LET c == bm[r].content
                    cause == FetchCause(r)
                IN IF c.downloaded
                   THEN /\ cause = "stored"
                        /\ fetch[r].get[1].code = 200
                        /\ c.path \in files
                   ELSE /\ "error" \in DOMAIN c
                        /\ Cardinality(ErrorBuckets(c.error)) = 1
                        /\ cause = "status" <=>
                              c.error = "status_code: " \o ToString(fetch[r].get[1].code)
                        /\ cause \in {"ClientConnectorError", "ClientPayloadError"}
                              <=> ErrorBuckets(c.error) = {"client_error"}
                        /\ cause = "TimeoutError" <=> c.error = "timeout"
                        /\ cause \in {"Exception", "OSError"}
                              <=> ErrorBuckets(c.error) = {"unexpected_error"}

\* C7: the phase is over with a stored page beside a download that timed out
C7_Witness ==
    /\ FetchPhaseOver
    /\ \E r, j \in Refs :
         /\ fetch[r].pc = "done" /\ bm[r].content.downloaded
         /\ fetch[j].pc = "done" /\ ~bm[j].content.downloaded
         /\ bm[j].content.error = "timeout"

\* C8: when the HEAD raises, the code depends on the class of the error only:
\* connection failure 0, error with a status that status, timeout 408, other
\* client error -1, anything else -2; accessible only for a code in [200,400).
C8_HeadFailureCode ==
    \A r \in Refs :
       (probe[r].pc = "done" /\ probe[r].head[1].kind = "raise") =>
          LET o == probe[r].head[1]
              st == bm[r].status
          IN /\ o.exc = "ClientConnectorError" => st.code = Some(0)
             /\ o.exc = "ClientResponseError" => st.code = Some(o.code)
             /\ o.exc = "TimeoutError" => st.code = Some(408)
             /\ o.exc = "ClientError" => st.code = Some(-1)
             /\ o.exc = "Exception" => st.code = Some(-2)
             /\ st.accessible = Some(TRUE) => InRange(st.code[1], 200, 400)

\* C8: the phase is over, one HEAD timed out and another raised an error
\* that carries the status 302
C8_Witness ==
    /\ ProbePhaseOver
    /\ \E r, j \in Refs :
         /\ probe[r].head = Some(Raise("TimeoutError", 0))
         /\ bm[r].status.code = Some(408)
         /\ probe[j].head = Some(Raise("ClientResponseError", 302))
         /\ bm[j].status.accessible = Some(TRUE)

\* C9: ssl_valid is null exactly for the URLs that are not https; for every
\* https URL the handshake is made and ssl_valid is its result, whatever the
\* HTTP requests did.
C9_SslValidForHttps ==
    ProbePhaseOver =>
       \A r \in Refs :
          /\ bm[r].status.ssl_valid = None <=> ~StartsWith(bm[r].url, "https://")
          /\ StartsWith(bm[r].url, "https://") =>
                /\ probe[r].tls # None
                /\ bm[r].status.ssl_valid = probe[r].tls

\* C10: redirect_url is non-null only when redirect is true.
C10_RedirectUrlOnlyIfRedirect ==
    \A r \in Refs :
       probe[r].pc = "done" =>
          (bm[r].status.redirect_url # None => bm[r].status.redirect = Some(TRUE))

\* C10: the phase is over; one redirect target was read from the HEAD and
\* the handshake failed after it, another was read from the follow-up GET
C10_Witness ==
    /\ ProbePhaseOver
    /\ \E r, j \in Refs :
         /\ probe[r].head = Some(Response(301, Some(RedirectTarget)))
         /\ bm[r].status.redirect_url # None
         /\ probe[r].tls = Some(FALSE)
         /\ probe[j].get # None /\ probe[j].get[1].kind = "response"
         /\ bm[j].status.redirect_url # None

\* the HEAD of r was answered with a code of 400 or more
HeadRefused(r) ==
    /\ probe[r].head # None
    /\ probe[r].head[1].kind = "response"
    /\ probe[r].head[1].code >= 400

\* the confirming GET of r was answered
GetAnswered(r) == probe[r].get # None /\ probe[r].get[1].kind = "response"

\* the confirming GET of r raised
GetRaised(r) == probe[r].get # None /\ probe[r].get[1].kind = "raise"

\* C11: the confirming GET is issued only when the HEAD was answered with a
\* code of 400 or more, and then always; when the GET is answered with code c
\* the final code is c, with accessible and redirect computed from c.
C11_ConfirmGetReplaces ==
    \A r \in Refs :
       /\ probe[r].nget > 0 => HeadRefused(r)
       /\ (probe[r].pc \in {"ssl", "done"} /\ HeadRefused(r)) => probe[r].nget = 1
       /\ (probe[r].pc = "done" /\ HeadRefused(r) /\ GetAnswered(r)) =>
             LET c == probe[r].get[1].code IN
             /\ bm[r].status.code = Some(c)
             /\ bm[r].status.accessible = Some(InRange(c, 200, 400))
             /\ bm[r].status.redirect = Some(InRange(c, 300, 400))

\* C11: a HEAD answered 404 was followed by a GET answered 200, and the
\* record ended with code 200, accessible
C11_Witness ==
    \E r \in Refs :
       /\ probe[r].pc = "done"
       /\ probe[r].head = Some(Response(404, None))
       /\ probe[r].get = Some(Response(200, None))
       /\ bm[r].status.code = Some(200)
       /\ bm[r].status.accessible = Some(TRUE)

\* C12 as stated: when the HEAD is answered with a code of 400 or more and
\* the confirming GET raises or is itself answered with a code of 400 or
\* more, the final code is the code of the HEAD.
C12_GetFailureKeepsHead ==
    \A r \in Refs :
       (/\ probe[r].pc = "done"
        /\ HeadRefused(r)
        /\ \/ GetRaised(r)
           \/ GetAnswered(r) /\ probe[r].get[1].code >= 400) =>
          bm[r].status.code = Some(probe[r].head[1].code)

\* C12 amended: when the HEAD is answered with a code of 400 or more and the
\* confirming GET raises, the final code is the code of the HEAD; a GET that
\* is answered gives its own code, also when that code is 400 or more.
C12_GetRaiseKeepsHead ==
    \A r \in Refs :
       /\ (probe[r].pc = "done" /\ HeadRefused(r) /\ GetRaised(r)) =>
             bm[r].status.code = Some(probe[r].head[1].code)
       /\ (probe[r].pc = "done" /\ HeadRefused(r) /\ GetAnswered(r)) =>
             bm[r].status.code = Some(probe[r].get[1].code)

\* C12: one confirming GET timed out and the record kept the 404 of the
\* HEAD, another was answered 500 and the record ended with 500
C12_Witness ==
    \E r, j \in Refs :
       /\ probe[r].pc = "done"
       /\ probe[r].head = Some(Response(404, None))
       /\ probe[r].get = Some(Raise("TimeoutError", 0))
       /\ bm[r].status.code = Some(404)
       /\ probe[j].pc = "done"
       /\ probe[j].head = Some(Response(404, None))
       /\ probe[j].get = Some(Response(500, None))
       /\ bm[j].status.code = Some(500)

\* the number of records of the input that come before r and have its domain
SameDomainBefore(r) ==
    Cardinality({ j \in Refs : bm[j].id < bm[r].id /\ bm[j].domain = bm[r].domain })

\* C13: the probe scheduler creates a task for every bookmark, with a start
\* delay of rank * d / 2, where rank counts the bookmarks of the same domain
\* that come before it in the input; with d = 1 s that is 0.5 s per rank.
C13_ProbeStagger ==
    (\E j \in Refs : probe[j].pc # "none") =>
       \A r \in Refs :
          /\ probe[r].pc # "none"
          /\ 2 * probe[r].delay = SameDomainBefore(r) * DelayMs

\* C13: two bookmarks of one domain are being probed, the first with no
\* delay and the second 500 ms later
C13_Witness ==
    /\ main_pc = "checking"
    /\ bm[1].domain = bm[2].domain
    /\ probe[1].delay = 0
    /\ probe[2].delay = 500
    /\ probe[2].pc = "head"

\* the number of accessible records of the input that come before r and
\* have its domain
SameDomainAccessibleBefore(r) ==
    Cardinality({ j \in Refs : /\ bm[j].id < bm[r].id
                               /\ bm[j].domain = bm[r].domain
                               /\ bm[j].status.accessible = Some(TRUE) })

\* C14 as stated: every bookmark that is fetched has a start delay of
\* rank * d, where rank counts all the bookmarks of the batch with its domain
\* that come before it, as in the probe phase.
C14_FetchStaggerAllRanks ==
    \A r \in Refs :
       fetch[r].pc # "none" => fetch[r].delay = SameDomainBefore(r) * DelayMs

\* C14 amended: every bookmark that is fetched has a start delay of rank * d,
\* where rank counts the accessible bookmarks of the batch with its domain
\* that come before it.
C14_FetchStaggerAccessibleRanks ==
    \A r \in Refs :
       fetch[r].pc # "none" =>
          fetch[r].delay = SameDomainAccessibleBefore(r) * DelayMs

\* C14: two accessible bookmarks of one domain are being fetched, the second
\* with a delay of 1000 ms
C14_Witness ==
    /\ main_pc = "downloading"
    /\ bm[1].domain = bm[2].domain
    /\ fetch[1].pc # "none"
    /\ fetch[2].delay = 1000
    /\ fetch[2].pc = "get"

\* C15: the fetch requests status.redirect_url when redirect is true and a
\* redirect_url is set, and the url of the bookmark otherwise; content.url_used
\* is the requested address, on success and in every failure bucket.
C15_FetchTargetRecorded ==
    \A r \in Refs :
       fetch[r].nget > 0 =>
          LET st == bm[r].status
              target == IF st.redirect = Some(TRUE) /\ st.redirect_url # None
                        THEN st.redirect_url[1]
                        ELSE bm[r].url
          IN /\ fetch[r].url = Some(target)
             /\ fetch[r].pc = "done" =>
                   /\ "url_used" \in DOMAIN bm[r].content
                   /\ bm[r].content.url_used = target

\* C15: a page was stored from the redirect target, and the download of a
\* bookmark without redirect failed on its own url
C15_Witness ==
    \E r, j \in Refs :
       /\ fetch[r].pc = "done"
       /\ bm[r].content.downloaded
       /\ bm[r].content.url_used = RedirectTarget
       /\ bm[r].url # RedirectTarget
       /\ fetch[j].pc = "done"
       /\ fetch[j].nget = 1
       /\ ~bm[j].content.downloaded
       /\ bm[j].status.redirect = Some(FALSE)
       /\ bm[j].content.url_used = bm[j].url

\* C16: the extension of the saved file is .json if the declared content
\* type contains "json", else .xml if it contains "xml", else .txt if it
\* contains "text/plain", else .html, also when no content type is declared;
\* "application/json; charset=utf-8" gives .json.
C16_ExtensionPriority ==
    (calc.fn = "extension" /\ calc.out # None) =>
       LET h == calc.arg
           ext == calc.out[1]
           json == h # None /\ Contains(h[1], "json")
           xml == h # None /\ Contains(h[1], "xml")
           plain == h # None /\ Contains(h[1], "text/plain")
       IN /\ json => ext = ".json"
          /\ (~json /\ xml) => ext = ".xml"
          /\ (~json /\ ~xml /\ plain) => ext = ".txt"
          /\ (~json /\ ~xml /\ ~plain) => ext = ".html"
          /\ h = Some("application/json; charset=utf-8") => ext = ".json"

\* C16: the extension was chosen for a content type that names both json
\* and xml
C16_Witness ==
    /\ calc.fn = "extension"
    /\ calc.arg = Some("application/json+xml; charset=utf-8")
    /\ calc.out = Some(".json")

\* the part of an address before its path: scheme, "://" and host
SchemeAndHost(url) ==
    LET after == Least(Occurrences(url, "://")) + 3
        stops == { k \in after..Len(url) : SubSeq(url, k, k) \in {"/", "?", "#"} }
    IN IF stops = {} THEN url ELSE SubSeq(url, 1, Least(stops) - 1)

\* the path of an address without its last segment, with the "/" before it
PathWithoutLastSegment(url) ==
    LET rest == SubSeq(url, Len(SchemeAndHost(url)) + 1, Len(url))
        stops == { k \in 1..Len(rest) : SubSeq(rest, k, k) \in {"?", "#"} }
        path == IF stops = {} THEN rest ELSE SubSeq(rest, 1, Least(stops) - 1)
        slashes == Occurrences(path, "/")
    IN IF slashes = {} THEN "/"
       ELSE SubSeq(path, 1, CHOOSE k \in slashes : \A j \in slashes : j <= k)

\* C17: a redirect target that starts with "/" is appended to scheme and
\* host of the request; any other target that is not absolute is appended to
\* scheme, host and the request path without its last segment; an absolute
\* target is kept. For https://a.b/x/y, z gives https://a.b/x/z and /q gives
\* https://a.b/q.
C17_RedirectResolution ==
    (calc.fn = "resolve" /\ calc.out # None /\ calc.arg[2] \notin {None, Some("")}) =>
       LET url == calc.arg[1]
           target == calc.arg[2][1]
           res == calc.out[1]
       IN /\ IF StartsWith(target, "http://") \/ StartsWith(target, "https://")
             THEN res = Some(target)
             ELSE IF StartsWith(target, "/")
             THEN res = Some(SchemeAndHost(url) \o target)
             ELSE res = Some(SchemeAndHost(url) \o PathWithoutLastSegment(url)
                               \o target)
          /\ (url = "https://a.b/x/y" /\ target = "z") => res = Some("https://a.b/x/z")
          /\ (url = "https://a.b/x/y" /\ target = "/q") => res = Some("https://a.b/q")

\* C17: the target z of a redirection of https://a.b/x/y was resolved
C17_Witness ==
    /\ calc.fn = "resolve"
    /\ calc.arg = <<"https://a.b/x/y", Some("z")>>
    /\ calc.out = Some(Some("https://a.b/x/z"))

\* the network steps of the probes of r and j went the same way
SameOutcomes(r, j) ==
    /\ bm[r].url = bm[j].url
    /\ probe[r].head = probe[j].head
    /\ probe[r].get = probe[j].get

\* C18: the result of a probe depends on the address and on what the network
\* did only: two probes of the same address with the same outcomes give the
\* same code, accessible and redirect, whatever status and content the
\* records held before.
C18_ProbeIdempotent ==
    \A r, j \in Refs :
       (probe[r].pc = "done" /\ probe[j].pc = "done" /\ SameOutcomes(r, j)) =>
          /\ bm[r].status.code = bm[j].status.code
          /\ bm[r].status.accessible = bm[j].status.accessible
          /\ bm[r].status.redirect = bm[j].status.redirect

\* C18: one address was probed in a record that held a stored page and in a
\* record fresh from the extraction; both probes got 404 and then a timeout
C18_Witness ==
    \E r, j \in Refs :
       /\ probe[r].pc = "done" /\ probe[j].pc = "done"
       /\ SameOutcomes(r, j)
       /\ probe[r].head = Some(Response(404, None))
       /\ probe[r].get = Some(Raise("TimeoutError", 0))
       /\ bm[r].content.downloaded
       /\ bm[j].content = InitialContent
       /\ bm[r].status.accessible = Some(FALSE)
       /\ bm[j].status.accessible = Some(FALSE)

\* C19: no request is repeated: the probe of a bookmark makes exactly one
\* HEAD and at most one confirming GET, the fetch of a bookmark at most one
\* GET, whatever fails.
C19_NoRetry ==
    \A r \in Refs :
       /\ probe[r].nhead <= 1
       /\ probe[r].nget <= 1
       /\ probe[r].pc \in {"head", "get", "ssl", "done"} => probe[r].nhead = 1
       /\ fetch[r].nget <= 1

\* C19: both phases are over for a bookmark whose HEAD was refused, whose
\* confirming GET was answered 200 and whose download timed out
C19_Witness ==
    /\ FetchPhaseOver
    /\ \E r \in Refs :
         /\ probe[r].head = Some(Response(404, None))
         /\ probe[r].nhead = 1
         /\ probe[r].nget = 1
         /\ ~bm[r].content.downloaded
         /\ "error" \in DOMAIN bm[r].content
         /\ bm[r].content.error = "timeout"
         /\ fetch[r].nget = 1

\* C20: an error of a phase as a whole (the content folder cannot be made,
\* or the driver of the batch raises) aborts the phase and reaches the caller
\* as an error: main does not go on as after a normal return.
C20_BatchFailureSurfaced ==
    errors # {} => main_pc = "crashed"

\* the stages of the pipeline, in order
Pipeline == <<"extract", "check", "download", "analyze", "categorize", "recommend">>

\* the stages from S on, without the download under --no-download
StagesFrom(S, nd) ==
    IF S = "report" THEN <<>>
    ELSE SelectSeq(Pipeline,
                   LAMBDA st : /\ IndexOf(Pipeline, S) <= IndexOf(Pipeline, st)
                               /\ ~(nd /\ st = "download"))

\* C21: a run started with --skip-to S enters S and every later stage of
\* extract, check, download (unless --no-download), analyze, categorize,
\* recommend, in that order, and no stage before S; the default run (S =
\* extract) probes the batch and then fetches it.
C21_StagesFromSkipTo ==
    main_pc = "exited" => ran = StagesFrom(skip_to, no_download)

\* the probe task of r is inside one of its network steps
InNetworkStep(r) == probe[r].pc \in {"head", "get", "ssl"}

\* the next step of the probe task of j can be taken
CanStep(j) ==
    /\ (probe[j].pc = "created" /\ SleepOver(probe[j].delay)) =>
          ENABLED ProbeIssueHead(j)
    /\ probe[j].pc = "head" => ENABLED ProbeHeadReturns(j)
    /\ probe[j].pc = "get" => ENABLED ProbeGetReturns(j)
    /\ probe[j].pc = "ssl" => ENABLED ProbeTls(j)

\* C22: while a task is inside a network step (HEAD, confirming GET, TLS
\* handshake), the tasks of the other hosts can start and complete their own
\* steps.
C22_OtherHostsProgress ==
    main_pc = "checking" =>
       \A r, j \in Refs :
          (bm[r].domain # bm[j].domain /\ InNetworkStep(r)) => CanStep(j)

\* C23: every task of the phase completes and the phase returns, even when
\* a host never answers, because each network step is bounded by the
\* per-request timeout.
C23_PhaseReturns ==
    (main_pc = "checking") ~> (main_pc = "stage3")

\* C24: the stagger only orders the starts: a task of rank k of its domain
\* does not send its request before k stagger intervals have passed since
\* the tasks were created (d / 2 per rank in the probe phase, d per rank in
\* the fetch phase); it does not keep two requests to one domain apart.
C24_StartNotBeforeStagger ==
    \A r \in Refs :
       /\ probe[r].start # None =>
             2 * probe[r].start[1] >= SameDomainBefore(r) * DelayMs
       /\ fetch[r].start # None =>
             fetch[r].start[1] >= SameDomainAccessibleBefore(r) * DelayMs

\* C24: two bookmarks of one domain have their HEAD requests in flight at
\* the same time: the first was sent at 0 and is still unanswered when the
\* second is sent after its 500 ms
C24_Witness ==
    /\ main_pc = "checking"
    /\ bm[1].domain = bm[2].domain
    /\ probe[1].pc = "head" /\ probe[1].start = Some(0)
    /\ probe[2].pc = "head" /\ probe[2].start = Some(500)

\* a step that writes the record r is the last step of the running task of
\* r, or the write of the inaccessible_url content to a record without task
\* when every task of the fetch phase has completed
OwnedWrite(r) ==
    bm'[r] # bm[r] =>
       \/ /\ main_pc = "checking"
          /\ probe[r].pc \in {"head", "get", "ssl"}
          /\ probe'[r].pc = "done"
          /\ \A j \in Refs \ {r} : bm'[j] = bm[j]
       \/ /\ main_pc = "downloading"
          /\ fetch[r].pc \in {"get", "read"}
          /\ fetch'[r].pc = "done"
          /\ \A j \in Refs \ {r} : bm'[j] = bm[j]
       \/ /\ main_pc = "downloading"
          /\ fetch[r].pc = "none"
          /\ \A j \in Refs : fetch[j].pc \in {"none", "done"}
          /\ bm'[r] = [bm[r] EXCEPT !.content = InaccessibleContent]

\* C25: within a phase a record is written by its own task only, one record
\* per step; the inaccessible_url content is written only to records that
\* have no task, and only after all tasks of the fetch phase have completed.
C25_RecordOwnedByTask ==
    [][bm # <<>> => \A r \in Refs : OwnedWrite(r)]_vars

\* C25: the fetch phase has returned; a record without task holds the
\* inaccessible_url content and the task of another record stored its page
C25_Witness ==
    /\ main_pc = "stage4"
    /\ \E r, j \in Refs :
         /\ probe[r].pc = "done" /\ fetch[r].pc = "none"
         /\ bm[r].content = InaccessibleContent
         /\ fetch[j].pc = "done"
         /\ bm[j].content.downloaded

\* the moves of a probe task from one step to the next
ProbeMoves ==
    { <<"none", "created">>, <<"created", "head">>, <<"head", "get">>,
      <<"head", "ssl">>, <<"head", "done">>, <<"get", "ssl">>, <<"get", "done">>,
      <<"ssl", "done">> }

\* a step of the probe task of r keeps the order of check_url
OrderedStep(r) ==
    /\ probe'[r].pc # probe[r].pc => <<probe[r].pc, probe'[r].pc>> \in ProbeMoves
    /\ (probe'[r].pc = "get" /\ probe[r].pc # "get") =>
          /\ probe'[r].head # None
          /\ probe'[r].head[1].kind = "response"
    /\ (probe'[r].pc = "ssl" /\ probe[r].pc # "ssl") =>
          /\ probe'[r].head # None
          /\ probe'[r].nget = 1 => probe'[r].get # None
          /\ probe'[r].tls = None
    /\ bm # <<>> =>
          (bm'[r].status # bm[r].status <=>
              (probe[r].pc # "done" /\ probe'[r].pc = "done"))

\* C26: a probe task goes through pending, HEAD, the confirming GET if any,
\* the TLS check if any, done, in that order: no GET before the HEAD has
\* returned, no TLS check before the HTTP steps have ended, and the status
\* is written once, in the step that ends the task.
C26_ProbeStepOrder ==
    [][\A r \in Refs : OrderedStep(r)]_vars

\* C26: a task is done after a HEAD, a confirming GET and a TLS check, and
\* the status of its record is written
C26_Witness ==
    \E r \in Refs :
       /\ probe[r].pc = "done"
       /\ probe[r].head # None /\ probe[r].get # None /\ probe[r].tls # None
       /\ StatusWritten(r)
       /\ bm[r].status.ssl_valid = probe[r].tls

\* the fields of the content of a record
ContentFields ==
    {"downloaded", "path", "size", "mime_type", "download_date", "error",
     "url_used"}

\* C27: after the fetch phase the content of every record has all the
\* fields downloaded, path, size, mime_type, download_date, error and
\* url_used, for a stored page, for every failure and for a record that was
\* not accessible.
C27_ContentShape ==
    (FetchPhaseOver /\ bm # <<>>) =>
        \A r \in Refs : DOMAIN bm[r].content = ContentFields

\* the ids of the records of a list, before and after the step
IdsOf(list) == { bm[list[k]].id : k \in DOMAIN list }

IdsOfNext(list) == { bm'[list[k]].id : k \in DOMAIN list }

\* a step in which check_urls or download_content returns to main
PhaseReturns ==
    /\ main_pc \in {"checking", "downloading"}
    /\ main_pc' \notin {"checking", "downloading"}

\* C28: the list a phase returns has the length and the ids of the list it
\* was given, each id once, for every mix of accessible and inaccessible
\* records and every outcome of the tasks.
C28_EveryRecordOnce ==
    [][PhaseReturns =>
         /\ Len(bookmarks'[1]) = Len(bookmarks[1])
         /\ IdsOfNext(bookmarks'[1]) = IdsOf(bookmarks[1])
         /\ Cardinality(IdsOfNext(bookmarks'[1])) = Len(bookmarks'[1])]_vars

\* C28: the fetch phase has returned a batch in which one record was stored
\* and another was not accessible
C28_Witness ==
    /\ FetchPhaseOver
    /\ bm # <<>>
    /\ Len(bookmarks[1]) = NumBookmarks
    /\ \E r, j \in Refs :
         /\ bm[r].content.downloaded
         /\ NotAccessible(bm[j])
         /\ fetch[j].pc = "none"

\* id, url and domain of the record r are left as they are by the step
KeepsIdentity(r) ==
    /\ bm'[r].id = bm[r].id
    /\ bm'[r].url = bm[r].url
    /\ bm'[r].domain = bm[r].domain

\* C29: a step of the probe phase changes nothing of a record but its
\* status, a step of the fetch phase nothing but its content; id, url and
\* domain are never changed and the fetch phase leaves the status as the
\* probe phase wrote it, for every outcome of the fetch.
C29_PhaseFrame ==
    [][bm # <<>> =>
         \A r \in Refs :
            /\ KeepsIdentity(r)
            /\ main_pc = "checking" => bm'[r].content = bm[r].content
            /\ main_pc = "downloading" => bm'[r].status = bm[r].status
            /\ main_pc \notin {"checking", "downloading"} => bm'[r] = bm[r]]_vars

\* C29: both phases ran; one record was probed and stored, another was
\* probed and its fetch failed
C29_Witness ==
    /\ ProbePhaseOver
    /\ FetchPhaseOver
    /\ \E r, j \in Refs :
         /\ bm[r].status.last_checked # None
         /\ bm[r].content.downloaded
         /\ bm[j].status.last_checked # None
         /\ fetch[j].pc = "done"
         /\ ~bm[j].content.downloaded

\* C30: after the fetch phase no two records with different ids and
\* downloaded = true have the same content.path, also when two bookmarks of
\* the batch are fetched from the same address.
C30_UniquePaths ==
    (FetchPhaseOver /\ bm # <<>>) =>
        \A r, j \in Refs :
           (/\ bm[r].id # bm[j].id
            /\ bm[r].content.downloaded
            /\ bm[j].content.downloaded)
           => bm[r].content.path # bm[j].content.path

====
